---- MODULE Spec2Model ----
(***************************************************************************)
(* Media Scraper (media_scraper_app.py): the media classifier, the link    *)
(* extractor, the bulk downloader and the Scrape button handler (archive   *)
(* creation and preview), as one state machine per scrape session.         *)
(*                                                                         *)
(* Text (URLs, paths, file names) is a sequence of one-character strings,  *)
(* so that parsing, joining and extension tests are computed character by  *)
(* character as the Python library functions compute them.                 *)
(***************************************************************************)
EXTENDS Integers, Sequences, FiniteSets, TLC

\* ------------------------------------------------------------------ bounds

\* Longest URL body the classifier specification enumerates.
MaxLen == 5

\* Most elements (img, video, source) a fetched page holds.
MaxElems == 3

\* ------------------------------------------------------------ text helpers

UpperChars == <<"A","B","C","D","E","F","G","H","I","J","K","L","M",
                "N","O","P","Q","R","S","T","U","V","W","X","Y","Z">>

LowerChars == <<"a","b","c","d","e","f","g","h","i","j","k","l","m",
                "n","o","p","q","r","s","t","u","v","w","x","y","z">>

Digits == {"0","1","2","3","4","5","6","7","8","9"}

Range(s) == {s[i] : i \in DOMAIN s}

\* str.lower() on one character.
LowerChar(c) ==
    IF \E i \in DOMAIN UpperChars : UpperChars[i] = c
    THEN LowerChars[CHOOSE i \in DOMAIN UpperChars : UpperChars[i] = c]
    ELSE c

\* str.lower()
Lower(s) == [i \in DOMAIN s |-> LowerChar(s[i])]

IsAlpha(c) == c \in Range(UpperChars) \cup Range(LowerChars)

\* s[a..b] with Python's slice clamping; indices are 1-based here.
Slice(s, a, b) ==
    IF (IF a < 1 THEN 1 ELSE a) > (IF b > Len(s) THEN Len(s) ELSE b)
    THEN <<>>
    ELSE SubSeq(s, IF a < 1 THEN 1 ELSE a, IF b > Len(s) THEN Len(s) ELSE b)

\* s.find(c, start): the least index >= start holding c, 0 when there is none.
Find(s, c, start) ==
    IF \E i \in DOMAIN s : i >= start /\ s[i] = c
    THEN CHOOSE i \in DOMAIN s :
            /\ i >= start
            /\ s[i] = c
            /\ \A j \in DOMAIN s : (j >= start /\ j < i) => s[j] # c
    ELSE 0

\* s.rfind(c): the greatest index holding c, 0 when there is none.
RFind(s, c) ==
    IF \E i \in DOMAIN s : s[i] = c
    THEN CHOOSE i \in DOMAIN s : s[i] = c /\ \A j \in DOMAIN s : j > i => s[j] # c
    ELSE 0

\* s.endswith(t)
EndsWith(s, t) ==
    /\ Len(t) <= Len(s)
    /\ Slice(s, Len(s) - Len(t) + 1, Len(s)) = t

\* s.split(c, 1)[0]
BeforeChar(s, c) == IF Find(s, c, 1) > 0 THEN Slice(s, 1, Find(s, c, 1) - 1) ELSE s

\* s.split(c, 1)[1], empty when s holds no c.
AfterChar(s, c) == IF Find(s, c, 1) > 0 THEN Slice(s, Find(s, c, 1) + 1, Len(s)) ELSE <<>>

\* ------------------------------------------------- urllib.parse, os.path

\* urllib.parse.scheme_chars
SchemeChars == Range(UpperChars) \cup Range(LowerChars) \cup Digits \cup {"+", "-", "."}

\* The schemes this model's URLs can carry, among urllib.parse.uses_params,
\* uses_relative and uses_netloc ("" and http are in all three).
KnownSchemes == {<<>>, <<"h","t","t","p">>}

\* urlsplit's scheme test for the first ':' at index i: it ends a scheme when
\* the text before it starts with a letter and holds scheme characters only.
EndsScheme(url, i) ==
    /\ i > 1
    /\ IsAlpha(url[1])
    /\ \A k \in 1..(i - 1) : url[k] \in SchemeChars

\* The index of the ':' ending the scheme, 0 when the URL has none.
SchemeEnd(url) == IF EndsScheme(url, Find(url, ":", 1)) THEN Find(url, ":", 1) ELSE 0

SchemeOf(url) ==
    IF SchemeEnd(url) > 0 THEN Lower(Slice(url, 1, SchemeEnd(url) - 1)) ELSE <<>>

AfterScheme(url) ==
    IF SchemeEnd(url) > 0 THEN Slice(url, SchemeEnd(url) + 1, Len(url)) ELSE url

\* if url[:2] == '//'
HasNetloc(u) == Slice(u, 1, 2) = <<"/", "/">>

\* _splitnetloc(url, 2): the index of the first of '/', '?', '#' at or after
\* position 3, Len(url) + 1 when there is none.
NetlocEnd(u) ==
    IF \E i \in DOMAIN u : i >= 3 /\ u[i] \in {"/", "?", "#"}
    THEN CHOOSE i \in DOMAIN u :
            /\ i >= 3
            /\ u[i] \in {"/", "?", "#"}
            /\ \A j \in DOMAIN u : (j >= 3 /\ j < i) => u[j] \notin {"/", "?", "#"}
    ELSE Len(u) + 1

NetlocOf(u) == IF HasNetloc(u) THEN Slice(u, 3, NetlocEnd(u) - 1) ELSE <<>>

AfterNetloc(u) == IF HasNetloc(u) THEN Slice(u, NetlocEnd(u), Len(u)) ELSE u

\* urlsplit's last steps on what follows the authority: the fragment is split
\* off at the first '#', then the query at the first '?'.
SplitRest(scheme, netloc, u) ==
    [scheme   |-> scheme,
     netloc   |-> netloc,
     path     |-> BeforeChar(BeforeChar(u, "#"), "?"),
     query    |-> AfterChar(BeforeChar(u, "#"), "?"),
     fragment |-> AfterChar(u, "#")]

\* urllib.parse.urlsplit
urlsplit(url) ==
    SplitRest(SchemeOf(url), NetlocOf(AfterScheme(url)), AfterNetloc(AfterScheme(url)))

\* urllib.parse._splitparams: the index of the ';' that starts the parameters of
\* the last path segment, 0 when there is none.
ParamsStart(path) ==
    IF Find(path, "/", 1) > 0
    THEN Find(path, ";", RFind(path, "/"))
    ELSE Find(path, ";", 1)

\* if scheme in uses_params and ';' in url
HasParams(sp) == sp.scheme \in KnownSchemes /\ ParamsStart(sp.path) > 0

SplitParams(sp) ==
    [scheme   |-> sp.scheme,
     netloc   |-> sp.netloc,
     path     |-> IF HasParams(sp) THEN Slice(sp.path, 1, ParamsStart(sp.path) - 1)
                  ELSE sp.path,
     params   |-> IF HasParams(sp)
                  THEN Slice(sp.path, ParamsStart(sp.path) + 1, Len(sp.path))
                  ELSE <<>>,
     query    |-> sp.query,
     fragment |-> sp.fragment]

\* urllib.parse.urlparse
urlparse(url) == SplitParams(urlsplit(url))

\* genericpath._splitext's test: the last dot lies in the last path segment and
\* something other than dots precedes it there.
StartsExtension(p, sepIndex, dotIndex) ==
    /\ dotIndex > sepIndex
    /\ \E k \in (sepIndex + 1)..(dotIndex - 1) : p[k] # "."

\* os.path.splitext(p)[1]
splitext_ext(p) ==
    IF StartsExtension(p, RFind(p, "/"), RFind(p, "."))
    THEN Slice(p, RFind(p, "."), Len(p))
    ELSE <<>>

\* os.path.basename(p)
basename(p) == Slice(p, RFind(p, "/") + 1, Len(p))

\* ------------------------------------------------------- media classifier

ImageExts == { <<".","p","n","g">>, <<".","j","p","g">>, <<".","j","p","e","g">>,
               <<".","g","i","f">>, <<".","w","e","b","p">>, <<".","s","v","g">> }

VideoExts == { <<".","m","p","4">>, <<".","w","e","b","m">>, <<".","o","g","g">>,
               <<".","m","o","v">>, <<".","a","v","i">>, <<".","m","k","v">> }

MediaExts == ImageExts \cup VideoExts

\* A plausible slip: the extension is compared without .lower().
is_media_url_case_sensitive(url) == splitext_ext(urlparse(url).path) \in MediaExts

is_media_url(url) == Lower(splitext_ext(urlparse(url).path)) \in MediaExts

\* ------------------------------------------------------- urljoin, paths

WithParams(path, params) == IF params # <<>> THEN path \o <<";">> \o params ELSE path

WithNetloc(u, netloc) ==
    IF netloc = <<>> THEN u
    ELSE IF u # <<>> /\ u[1] # "/" THEN <<"/", "/">> \o netloc \o <<"/">> \o u
    ELSE <<"/", "/">> \o netloc \o u

WithScheme(u, scheme) == IF scheme # <<>> THEN scheme \o <<":">> \o u ELSE u

WithQuery(u, query) == IF query # <<>> THEN u \o <<"?">> \o query ELSE u

WithFragment(u, fragment) == IF fragment # <<>> THEN u \o <<"#">> \o fragment ELSE u

\* urllib.parse.urlunparse: the components put together again; an empty
\* component leaves no delimiter behind.
urlunparse(scheme, netloc, path, params, query, fragment) ==
    WithFragment(
        WithQuery(WithScheme(WithNetloc(WithParams(path, params), netloc), scheme), query),
        fragment)

\* urlparse(url, bscheme).scheme: the reference's scheme, the base's by default.
JoinScheme(b, u) == IF u.scheme # <<>> THEN u.scheme ELSE b.scheme

\* The reference's path resolved against the base path, for a path that holds
\* no ".", ".." or empty segment (every value of SrcValues): it replaces the
\* last segment of the base path, or the whole of it when it starts with "/".
ResolvedPath(bpath, path) ==
    IF path[1] = "/" THEN path
    ELSE Slice(bpath, 1, RFind(bpath, "/")) \o path

\* urljoin on the parsed base b and the parsed reference u.
JoinParsed(b, u, url) ==
    IF JoinScheme(b, u) # b.scheme \/ JoinScheme(b, u) \notin KnownSchemes THEN url
    ELSE IF u.netloc # <<>>
    THEN urlunparse(JoinScheme(b, u), u.netloc, u.path, u.params, u.query, u.fragment)
    ELSE IF u.path = <<>> /\ u.params = <<>>
    THEN urlunparse(JoinScheme(b, u), b.netloc, b.path, b.params,
                    IF u.query # <<>> THEN u.query ELSE b.query, u.fragment)
    ELSE urlunparse(JoinScheme(b, u), b.netloc, ResolvedPath(b.path, u.path),
                    u.params, u.query, u.fragment)

\* urllib.parse.urljoin(base, url)
urljoin(base, url) ==
    IF base = <<>> THEN url
    ELSE IF url = <<>> THEN base
    ELSE JoinParsed(urlparse(base), urlparse(url), url)

\* os.path.join(out_dir, filename), filename holding no "/".
join(out_dir, filename) == out_dir \o <<"/">> \o filename

\* filename = os.path.basename(url.split("?")[0])
FilenameOf(url) == basename(BeforeChar(url, "?"))

\* "file_" + os.urandom(4).hex(): the random part is one of HexChoices.
HexChoices == { <<"0","0">>, <<"f","f">> }

RandomFilename(hex) == <<"f","i","l","e","_">> \o hex

\* if not filename: filename = "file_" + os.urandom(4).hex()
ChosenFilename(url, hex) ==
    IF FilenameOf(url) = <<>> THEN RandomFilename(hex) ELSE FilenameOf(url)

\* tempfile.mkdtemp(): the session's directory.
TmpDir == <<"/", "t">>

\* zip_path = os.path.join(tmp_dir, "media.zip")
ZipPath == join(TmpDir, <<"m","e","d","i","a",".","z","i","p">>)

\* shutil.make_archive(base_name=zip_path[:-4], format="zip"): the file written
\* is base_name + ".zip".
ArchiveFile == Slice(ZipPath, 1, Len(ZipPath) - 4) \o <<".","z","i","p">>

\* name.lower().endswith(<image extensions>) / (<video extensions>)
PreviewKind(name) ==
    IF \E e \in ImageExts : EndsWith(Lower(name), e) THEN "image"
    ELSE IF \E e \in VideoExts : EndsWith(Lower(name), e) THEN "video"
    ELSE "none"

\* ------------------------------------------------------------------ state


VARIABLES
    c_url,        \* classifier run: the URL given to is_media_url
    c_done,       \* classifier run: whether is_media_url has returned
    c_ret,        \* classifier run: what it returned (FALSE before the call)
    pc,           \* where the Scrape handler stands
    page_url,     \* the text input
    fetch,        \* outcome of the page fetch: "none", "ok", "request", "status"
    media_links,  \* what collect_media_links returned
    examined,     \* src-bearing elements the extractor looked at
    extracted,    \* size of media_urls before the extension filter
    tmp_dir,      \* whether tempfile.mkdtemp() has created the directory
    idx,          \* download_media: position of the for loop in urls
    phase,        \* download_media: "next", "request" or "writing"
    active,       \* positions whose download has begun and not yet ended
    cur_path,     \* download_media: path of the file being written
    saved_files,  \* download_media: its list of saved paths
    requested,    \* the URLs requests.get was called with, in order
    results,      \* one DownloadResult per URL the loop has finished
    files,        \* the files of the temporary directory
    downloaded,   \* the handler's list, set when download_media returns
    archived,     \* whether make_archive has run
    archive,      \* the entry names of media.zip
    ui,           \* what the page shows, in order
    shown,        \* the preview section's entries
    pidx          \* position of the preview loop

classifierVars == <<c_url, c_done, c_ret>>

sessionVars == <<pc, page_url, fetch, media_links, examined, extracted, tmp_dir,
                 idx, phase, active, cur_path, saved_files, requested, results,
                 files, downloaded, archived, archive, ui, shown, pidx>>

vars == <<c_url, c_done, c_ret, pc, page_url, fetch, media_links, examined,
          extracted, tmp_dir, idx, phase, active, cur_path, saved_files,
          requested, results, files, downloaded, archived, archive, ui, shown,
          pidx>>

\* The page as loaded, before Scrape is pressed.
SessionIdle ==
    /\ pc = "idle"
    /\ page_url = <<>>
    /\ fetch = "none"
    /\ media_links = <<>>
    /\ examined = 0
    /\ extracted = 0
    /\ tmp_dir = FALSE
    /\ idx = 0
    /\ phase = "next"
    /\ active = {}
    /\ cur_path = <<>>
    /\ saved_files = <<>>
    /\ requested = <<>>
    /\ results = <<>>
    /\ files = {}
    /\ downloaded = <<>>
    /\ archived = FALSE
    /\ archive = {}
    /\ ui = <<>>
    /\ shown = <<>>
    /\ pidx = 0

\* ---------------------------------------------- classifier specification

\* URL bodies: every text of at most MaxLen characters over BodyChars.
BodyChars == {"/", ".", "o", "g", "G"}

RECURSIVE Texts(_)
Texts(n) ==
    IF n = 0 THEN {<<>>}
    ELSE LET shorter == Texts(n - 1)
         IN  shorter \cup {Append(t, c) : t \in {s \in shorter : Len(s) = n - 1}, c \in BodyChars}

UrlPrefixes == { <<>>, <<"h","t","t","p",":","/","/","h","/">>, <<"/","/","h">> }

UrlSuffixes == { <<>>, <<"?","v">>, <<"#",".","o","g","g">>,
                 <<"?",".","o","g","g","#","g">>, <<";","g">> }

ClassifierInputs == {p \o b \o s : p \in UrlPrefixes, b \in Texts(MaxLen), s \in UrlSuffixes}

ClassifierInit ==
    /\ c_url \in ClassifierInputs
    /\ c_done = FALSE
    /\ c_ret = FALSE
    /\ SessionIdle

Classify ==
    /\ ~c_done
    /\ c_done' = TRUE
    /\ c_ret' = is_media_url(c_url)
    /\ UNCHANGED c_url
    /\ UNCHANGED sessionVars

ClassifierNext == Classify

SpecClassifier == ClassifierInit /\ [][ClassifierNext]_vars

\* ------------------------------------------------------- link extractor

\* The page the user enters: nothing, or a page of host h.
PageUrls == { <<>>, <<"h","t","t","p",":","/","/","h","/","p">> }

\* The src attributes a page's elements carry: a relative, a root-relative and
\* a query-carrying reference to a.ogg, an image, a text file, an empty
\* attribute, and a reference whose fragment ends in "/".
SrcValues == { <<"a",".","o","g","g">>,
               <<"/","a",".","o","g","g">>,
               <<"a",".","o","g","g","?","v">>,
               <<"b",".","G","I","F">>,
               <<"c",".","t">>,
               <<>>,
               <<"a",".","o","g","g","#","/">> }

\* A page is its img, video and source elements in document order; a source
\* element belongs to the video that it follows directly or through other
\* source elements, and to no video otherwise.
Tags == {"img", "video", "source"}

Elements == [tag : Tags, src : SrcValues]

Pages(n) == UNION {[1..k -> Elements] : k \in 0..n}

\* A page of six images.
GalleryPage ==
    << [tag |-> "img", src |-> <<"1",".","g","i","f">>],
       [tag |-> "img", src |-> <<"2",".","g","i","f">>],
       [tag |-> "img", src |-> <<"3",".","g","i","f">>],
       [tag |-> "img", src |-> <<"4",".","g","i","f">>],
       [tag |-> "img", src |-> <<"5",".","g","i","f">>],
       [tag |-> "img", src |-> <<"6",".","g","i","f">>] >>

\* video.find_all("source"): element i is a source inside a video.
Nested(page, i) ==
    /\ page[i].tag = "source"
    /\ \E j \in 1..(i - 1) :
          /\ page[j].tag = "video"
          /\ \A m \in (j + 1)..(i - 1) : page[m].tag = "source"

\* The urljoin(page_url, src) values in the order the loops reach them: every
\* img with a src, then every video with a src and its sources with a src.
Positions(page) == [i \in 1..Len(page) |-> i]

\* for img in soup.find_all("img"): ... if src:
ImgPositions(page) ==
    SelectSeq(Positions(page), LAMBDA i : page[i].tag = "img" /\ page[i].src # <<>>)

\* for video in soup.find_all("video"): ... for source in video.find_all("source"):
VideoPositions(page) ==
    SelectSeq(Positions(page), LAMBDA i : /\ page[i].tag = "video" \/ Nested(page, i)
                                          /\ page[i].src # <<>>)

\* urljoin(page_url, src) for every page URL and src value of the model,
\* computed once.
Resolved ==
    [b \in PageUrls, s \in SrcValues \cup {GalleryPage[k].src : k \in DOMAIN GalleryPage}
        |-> urljoin(b, s)]

Resolve(base, page, at) == [k \in 1..Len(at) |-> Resolved[base, page[at[k]].src]]

RawLinks(base, page) == Resolve(base, page, ImgPositions(page) \o VideoPositions(page))

\* Every list that holds each member of S once.
ListsOf(S) ==
    {f \in [1..Cardinality(S) -> S] : \A a, b \in 1..Cardinality(S) : a # b => f[a] # f[b]}

\* A plausible slip: media_urls is a list, so a repeated URL stays repeated.
IterationOrders_list(raw) == {raw}

\* media_urls = set() and its add() calls, then the iteration of the set: each
\* distinct URL once, in an order the set decides.
IterationOrders(raw) == ListsOf(Range(raw))

\* A plausible slip: the extension filter is left out.
KeepMedia_all(urls) == urls

\* [u for u in media_urls if is_media_url(u)]
KeepMedia(urls) == SelectSeq(urls, is_media_url)

\* What collect_media_links can return when its loops add the URLs `raw`.
collect_media_links(raw) == {KeepMedia(o) : o \in IterationOrders(raw)}

\* ------------------------------------------------------------ the session

Msg(kind, what, arg) == [kind |-> kind, what |-> what, arg |-> arg]

Said(what) == \E k \in DOMAIN ui : ui[k].what = what

Min(a, b) == IF a < b THEN a ELSE b

Init ==
    /\ c_url = <<>>
    /\ c_done = FALSE
    /\ c_ret = FALSE
    /\ SessionIdle

\* if st.button("Scrape"): with no URL entered.
ScrapeWithoutUrl ==
    /\ pc = "idle"
    /\ page_url' = <<>>
    /\ ui' = Append(ui, Msg("error", "no_url", <<>>))
    /\ pc' = "done"
    /\ UNCHANGED <<fetch, media_links, examined, extracted, tmp_dir, idx, phase,
                   active, cur_path, saved_files, requested, results, files,
                   downloaded, archived, archive, shown, pidx>>
    /\ UNCHANGED classifierVars

\* if st.button("Scrape"): with a URL entered.
Scrape ==
    /\ pc = "idle"
    /\ \E u \in PageUrls \ {<<>>} : page_url' = u
    /\ ui' = Append(ui, Msg("info", "fetching", <<>>))
    /\ pc' = "collect"
    /\ UNCHANGED <<fetch, media_links, examined, extracted, tmp_dir, idx, phase,
                   active, cur_path, saved_files, requested, results, files,
                   downloaded, archived, archive, shown, pidx>>
    /\ UNCHANGED classifierVars

\* A plausible slip: a failed page fetch is treated as an empty success and the
\* handler goes on.
CollectFail_continue ==
    /\ pc = "collect"
    /\ \E kind \in {"request", "status"} : fetch' = kind
    /\ ui' = Append(ui, Msg("info", "found", <<>>))
    /\ pc' = "mkdtemp"
    /\ UNCHANGED <<page_url, media_links, examined, extracted, tmp_dir, idx, phase,
                   active, cur_path, saved_files, requested, results, files,
                   downloaded, archived, archive, shown, pidx>>
    /\ UNCHANGED classifierVars

\* requests.get raises, or raise_for_status does: both are RequestExceptions,
\* caught by the handler's first except clause.
CollectFail ==
    /\ pc = "collect"
    /\ \E kind \in {"request", "status"} : fetch' = kind
    /\ ui' = Append(ui, Msg("error", "network", page_url))
    /\ pc' = "done"
    /\ UNCHANGED <<page_url, media_links, examined, extracted, tmp_dir, idx, phase,
                   active, cur_path, saved_files, requested, results, files,
                   downloaded, archived, archive, shown, pidx>>
    /\ UNCHANGED classifierVars

\* The page is fetched, its loops add the URLs `raw` and collect_media_links
\* returns `links`; the handler reports the count and stops when the list is
\* empty.
Collected(raw, links) ==
    /\ pc = "collect"
    /\ fetch' = "ok"
    /\ media_links' = links
    /\ examined' = Len(raw)
    /\ extracted' = Cardinality(Range(raw))
    /\ ui' = IF links = <<>>
             THEN ui \o <<Msg("info", "found", <<>>), Msg("info", "no_links", <<>>)>>
             ELSE ui \o <<Msg("info", "found", <<>>), Msg("expander", "raw_urls", <<>>)>>
    /\ pc' = IF links = <<>> THEN "done" ELSE "mkdtemp"
    /\ UNCHANGED <<page_url, tmp_dir, idx, phase, active, cur_path, saved_files,
                   requested, results, files, downloaded, archived, archive,
                   shown, pidx>>
    /\ UNCHANGED classifierVars

CollectOk ==
    /\ pc = "collect"
    /\ \E raw \in {RawLinks(page_url, page) : page \in Pages(MaxElems)} :
          \E links \in collect_media_links(raw) : Collected(raw, links)

CollectGallery ==
    /\ pc = "collect"
    /\ \E links \in collect_media_links(RawLinks(page_url, GalleryPage)) :
          Collected(RawLinks(page_url, GalleryPage), links)

\* tmp_dir = tempfile.mkdtemp(), and download_media is entered.
MakeTmpDir ==
    /\ pc = "mkdtemp"
    /\ tmp_dir' = TRUE
    /\ ui' = Append(ui, Msg("info", "downloading", <<>>))
    /\ saved_files' = <<>>
    /\ idx' = 1
    /\ phase' = "next"
    /\ pc' = "download"
    /\ UNCHANGED <<page_url, fetch, media_links, examined, extracted, active,
                   cur_path, requested, results, files, downloaded, archived,
                   archive, shown, pidx>>
    /\ UNCHANGED classifierVars

\* ------------------------------------------------------- bulk downloader

\* A plausible slip: the loop ends after its first URL.
LoopDone_early == idx > 1

\* for url in urls: the list is exhausted.
LoopDone == idx > Len(media_links)

\* A plausible slip: the except clause ends the batch instead of going on.
AfterFailure_abort(i) == Len(media_links) + 1

\* except Exception: report, then the next iteration of the loop.
AfterFailure(i) == i + 1

Result(url, outcome, path) == [url |-> url, outcome |-> outcome, path |-> path]

\* st.write("Attempting to download"); requests.get(url, stream=True, ...) is
\* called.
StartRequest ==
    /\ pc = "download"
    /\ phase = "next"
    /\ ~LoopDone
    /\ ui' = Append(ui, Msg("write", "attempting", media_links[idx]))
    /\ requested' = Append(requested, media_links[idx])
    /\ active' = active \cup {idx}
    /\ phase' = "request"
    /\ UNCHANGED <<pc, page_url, fetch, media_links, examined, extracted, tmp_dir,
                   idx, cur_path, saved_files, results, files, downloaded,
                   archived, archive, shown, pidx>>
    /\ UNCHANGED classifierVars

\* requests.get raises ("request") or raise_for_status does ("status"): no
\* file is opened, the failure is reported and the loop goes on.
RequestFail ==
    /\ pc = "download"
    /\ phase = "request"
    /\ \E kind \in {"request", "status"} :
          results' = Append(results, Result(media_links[idx], kind, <<>>))
    /\ ui' = Append(ui, Msg("error", "download_failed", media_links[idx]))
    /\ active' = active \ {idx}
    /\ idx' = AfterFailure(idx)
    /\ phase' = "next"
    /\ UNCHANGED <<pc, page_url, fetch, media_links, examined, extracted, tmp_dir,
                   cur_path, saved_files, requested, files, downloaded, archived,
                   archive, shown, pidx>>
    /\ UNCHANGED classifierVars

\* The response is good: the file name is derived (a random one when the URL
\* gives none) and open(path, "wb") creates or truncates the file.
OpenFile ==
    /\ pc = "download"
    /\ phase = "request"
    /\ \E hex \in HexChoices :
          cur_path' = join(TmpDir, ChosenFilename(media_links[idx], hex))
    /\ files' = {f \in files : f.path # cur_path'}
                \cup {[path |-> cur_path', body |-> media_links[idx], complete |-> FALSE]}
    /\ phase' = "writing"
    /\ UNCHANGED <<pc, page_url, fetch, media_links, examined, extracted, tmp_dir,
                   idx, active, saved_files, requested, results, downloaded,
                   archived, archive, ui, shown, pidx>>
    /\ UNCHANGED classifierVars

\* iter_content or f.write raises: the with block closes the file, which stays
\* in the directory with the part of the body written so far.
WriteFail ==
    /\ pc = "download"
    /\ phase = "writing"
    /\ results' = Append(results, Result(media_links[idx], "write", <<>>))
    /\ ui' = Append(ui, Msg("error", "download_failed", media_links[idx]))
    /\ active' = active \ {idx}
    /\ cur_path' = <<>>
    /\ idx' = AfterFailure(idx)
    /\ phase' = "next"
    /\ UNCHANGED <<pc, page_url, fetch, media_links, examined, extracted, tmp_dir,
                   saved_files, requested, files, downloaded, archived, archive,
                   shown, pidx>>
    /\ UNCHANGED classifierVars

\* Every chunk is written: saved_files.append(path); st.success(...).
FinishWrite ==
    /\ pc = "download"
    /\ phase = "writing"
    /\ files' = {f \in files : f.path # cur_path}
                \cup {[path |-> cur_path, body |-> media_links[idx], complete |-> TRUE]}
    /\ saved_files' = Append(saved_files, cur_path)
    /\ results' = Append(results, Result(media_links[idx], "ok", cur_path))
    /\ ui' = Append(ui, Msg("success", "downloaded", basename(cur_path)))
    /\ active' = active \ {idx}
    /\ cur_path' = <<>>
    /\ idx' = idx + 1
    /\ phase' = "next"
    /\ UNCHANGED <<pc, page_url, fetch, media_links, examined, extracted, tmp_dir,
                   requested, downloaded, archived, archive, shown, pidx>>
    /\ UNCHANGED classifierVars

\* return saved_files; downloaded = download_media(media_links, tmp_dir)
DownloadReturn ==
    /\ pc = "download"
    /\ phase = "next"
    /\ LoopDone
    /\ downloaded' = saved_files
    /\ pc' = "returned"
    /\ UNCHANGED <<page_url, fetch, media_links, examined, extracted, tmp_dir, idx,
                   phase, active, cur_path, saved_files, requested, results,
                   files, archived, archive, ui, shown, pidx>>
    /\ UNCHANGED classifierVars

\* --------------------------------------------------- archive and preview

\* if downloaded: ... else: st.info("No downloadable media could be saved.")
NoneSaved ==
    /\ pc = "returned"
    /\ downloaded = <<>>
    /\ ui' = Append(ui, Msg("info", "none_saved", <<>>))
    /\ pc' = "done"
    /\ UNCHANGED <<page_url, fetch, media_links, examined, extracted, tmp_dir, idx,
                   phase, active, cur_path, saved_files, requested, results,
                   files, downloaded, archived, archive, shown, pidx>>
    /\ UNCHANGED classifierVars

\* shutil.make_archive(..., root_dir=tmp_dir): the zip file is created inside
\* tmp_dir and then every file the directory holds is added under its base
\* name, the zip file itself among them. The ZIP button and the preview
\* heading follow.
MakeArchive ==
    /\ pc = "returned"
    /\ downloaded # <<>>
    /\ files' = {f \in files : f.path # ArchiveFile}
                \cup {[path |-> ArchiveFile, body |-> <<>>, complete |-> TRUE]}
    /\ archive' = {basename(f.path) : f \in files'}
    /\ archived' = TRUE
    /\ ui' = ui \o <<Msg("button", "zip", basename(ZipPath)),
                     Msg("subheader", "preview", <<>>)>>
    /\ pidx' = 1
    /\ pc' = "preview"
    /\ UNCHANGED <<page_url, fetch, media_links, examined, extracted, tmp_dir, idx,
                   phase, active, cur_path, saved_files, requested, results,
                   downloaded, shown>>
    /\ UNCHANGED classifierVars

\* for file_path, url in zip(downloaded, media_links): the pairs left.
PreviewLeft == pidx <= Min(Len(downloaded), Len(media_links))

\* key=f"img_{name}" / f"vid_{name}" is the key of a button already shown.
KeyInUse(name) ==
    /\ PreviewKind(name) # "none"
    /\ \E k \in DOMAIN shown : shown[k].name = name

Entry(name, url, captioned) ==
    [name |-> name, kind |-> PreviewKind(name), source |-> url, captioned |-> captioned]

\* One pass of the preview loop: the image or video and its download button
\* when the name has a media extension, then the Source caption.
PreviewFile ==
    /\ pc = "preview"
    /\ PreviewLeft
    /\ ~KeyInUse(basename(downloaded[pidx]))
    /\ shown' = Append(shown, Entry(basename(downloaded[pidx]), media_links[pidx], TRUE))
    /\ pidx' = pidx + 1
    /\ UNCHANGED <<pc, page_url, fetch, media_links, examined, extracted, tmp_dir,
                   idx, phase, active, cur_path, saved_files, requested, results,
                   files, downloaded, archived, archive, ui>>
    /\ UNCHANGED classifierVars

\* One pass of the preview loop for a name shown before: the image or video is
\* rendered, the download button's key is a duplicate and Streamlit raises; the
\* handler's last except clause reports it.
PreviewDuplicateKey ==
    /\ pc = "preview"
    /\ PreviewLeft
    /\ KeyInUse(basename(downloaded[pidx]))
    /\ shown' = Append(shown, Entry(basename(downloaded[pidx]), media_links[pidx], FALSE))
    /\ ui' = Append(ui, Msg("error", "generic", <<>>))
    /\ pc' = "done"
    /\ UNCHANGED <<page_url, fetch, media_links, examined, extracted, tmp_dir, idx,
                   phase, active, cur_path, saved_files, requested, results,
                   files, downloaded, archived, archive, pidx>>
    /\ UNCHANGED classifierVars

\* The preview loop is exhausted.
PreviewEnd ==
    /\ pc = "preview"
    /\ ~PreviewLeft
    /\ pc' = "done"
    /\ UNCHANGED <<page_url, fetch, media_links, examined, extracted, tmp_dir, idx,
                   phase, active, cur_path, saved_files, requested, results,
                   files, downloaded, archived, archive, ui, shown, pidx>>
    /\ UNCHANGED classifierVars

\* --------------------------------------------------------- specifications

Next ==
    \/ ScrapeWithoutUrl
    \/ Scrape
    \/ CollectFail
    \/ CollectOk
    \/ MakeTmpDir
    \/ StartRequest
    \/ RequestFail
    \/ OpenFile
    \/ WriteFail
    \/ FinishWrite
    \/ DownloadReturn
    \/ NoneSaved
    \/ MakeArchive
    \/ PreviewFile
    \/ PreviewDuplicateKey
    \/ PreviewEnd

\* A scrape session over any page of at most MaxElems elements.
Spec == Init /\ [][Next]_vars

GalleryNext ==
    \/ Scrape
    \/ CollectGallery
    \/ MakeTmpDir
    \/ StartRequest
    \/ OpenFile
    \/ FinishWrite
    \/ DownloadReturn
    \/ MakeArchive
    \/ PreviewFile
    \/ PreviewEnd

\* A scrape session over the six-image page, every download succeeding.
SpecGallery == Init /\ [][GalleryNext]_vars

\* ----------------------------------------------------------- properties

\* download_media has returned to the handler.
DownloadReturned == tmp_dir /\ pc \in {"returned", "preview", "done"}

Succeeded(rs) == SelectSeq(rs, LAMBDA r : r.outcome = "ok")

PathsOf(rs) == [k \in DOMAIN rs |-> rs[k].path]

NoRepeats(seq) == \A a, b \in DOMAIN seq : a # b => seq[a] # seq[b]

\* C1: a failing URL (request error, bad status, write error) neither raises
\* out of download_media nor ends the batch. While the loop runs, every URL
\* before the current one has its result; once download_media has returned,
\* every URL of the list was requested, in list order, each has a result, and
\* the returned list is the saved paths of the successful ones in list order.
BatchContinuesPastFailures ==
    /\ (pc = "download" /\ phase = "next") => Len(results) = Min(idx, Len(media_links) + 1) - 1
    /\ DownloadReturned =>
          /\ requested = media_links
          /\ Len(results) = Len(media_links)
          /\ \A k \in DOMAIN results : results[k].url = media_links[k]
          /\ downloaded = PathsOf(Succeeded(results))

\* Three URLs, the second failing on the request: two saved paths come back.
SecondOfThreeFailed ==
    /\ pc = "returned"
    /\ Len(results) = 3
    /\ results[1].outcome = "ok"
    /\ results[2].outcome = "request"
    /\ results[3].outcome = "ok"
    /\ Len(downloaded) = 2

\* C2: the entries of media.zip are exactly the base names of the files of the
\* successful downloads: nothing of a failed download, and not media.zip.
ArchiveHoldsExactlySuccesses ==
    archived => archive = {basename(r.path) : r \in Range(Succeeded(results))}

\* C3: when the fetch of the page fails, the session ends with a network error
\* and nothing else: no temporary directory, no media request, no file, no
\* archive, no ZIP button and no preview.
PageFetchFailureIsFatal ==
    fetch \in {"request", "status"} =>
        /\ pc = "done"
        /\ Said("network")
        /\ ~tmp_dir
        /\ requested = <<>>
        /\ files = {}
        /\ ~archived
        /\ archive = {}
        /\ shown = <<>>
        /\ ~Said("zip")
        /\ ~Said("preview")

\* The page answered with an error status and the session is over.
PageFetchFailed == fetch = "status" /\ pc = "done" /\ Said("network")

\* C4: every URL download_media requests passes is_media_url.
RequestedUrlsAreMedia == \A k \in DOMAIN requested : is_media_url(requested[k])

\* The page held a URL without a media extension, which the filter dropped,
\* and two media URLs, which were requested.
NonMediaDroppedBeforeDownload ==
    /\ extracted > Len(media_links)
    /\ Len(requested) = 2

\* What follows the scheme and the authority of a URL.
AfterAuthority(url) == AfterNetloc(AfterScheme(url))

\* The path component: the longest prefix of what follows the authority that
\* holds neither '?' nor '#' ...
UpToQueryOrFragment(r) ==
    Slice(r, 1, Cardinality({i \in DOMAIN r : \A j \in 1..i : r[j] \notin {"?", "#"}}))

\* ... without the ';parameters' of its last segment.
WithoutParameters(p) ==
    Slice(p, 1, Cardinality({i \in DOMAIN p :
                    ~ \E j \in 1..i : p[j] = ";" /\ \A m \in j..Len(p) : p[m] # "/"}))

PathComponent(url) == WithoutParameters(UpToQueryOrFragment(AfterAuthority(url)))

\* Path p has the final extension e, compared case-insensitively: p ends in a
\* dot and a text e without dot or slash, and the dot has a character other
\* than a dot before it in its segment (as for os.path.splitext, a segment such
\* as ".ogg" is a name without extension).
HasFinalExtension(p, e) ==
    \E k \in DOMAIN p :
        /\ p[k] = "."
        /\ \A j \in (k + 1)..Len(p) : p[j] \notin {".", "/"}
        /\ \E j \in 1..(k - 1) : p[j] # "." /\ \A m \in j..k : p[m] # "/"
        /\ Lower(SubSeq(p, k, Len(p))) = e

\* The URL cut before its first '?' or '#'.
WithoutQueryAndFragment(url) == UpToQueryOrFragment(url)

\* C5: is_media_url(url) is true exactly when the final extension of the URL's
\* path component, compared case-insensitively, is one of the twelve media
\* extensions; the query string and the fragment do not change the result.
ClassifierMatchesExtension ==
    c_done =>
        /\ c_ret = (\E e \in MediaExts : HasFinalExtension(PathComponent(c_url), e))
        /\ c_ret = is_media_url(WithoutQueryAndFragment(c_url))

\* A URL with a query string whose extension matches only when lower-cased.
UpperCaseExtensionWithQuery ==
    /\ c_done
    /\ c_ret
    /\ "?" \in Range(c_url)
    /\ splitext_ext(urlparse(c_url).path) \notin MediaExts

\* C6: downloads run one at a time in list order, and the archive exists only
\* once every URL of the session has been requested and has finished; no
\* request follows it.
ArchiveAfterSequentialDownloads ==
    /\ Cardinality(active) <= 1
    /\ \A k \in active : k = Len(requested) /\ Len(results) = k - 1
    /\ \A k \in DOMAIN requested : k <= Len(media_links) /\ requested[k] = media_links[k]
    /\ archived =>
          /\ active = {}
          /\ Len(requested) = Len(media_links)
          /\ Len(results) = Len(media_links)

\* The archive of a session of three URLs, one of which failed.
ArchiveBuiltAfterThree ==
    /\ archived
    /\ Len(media_links) = 3
    /\ Len(downloaded) = 2

\* The preview entries rendered inline (an image or a video).
Inline == {k \in DOMAIN shown : shown[k].kind # "none"}

\* C7: the preview renders at most 5 files inline, the first min(k, 5)
\* downloaded files in download order.
PreviewAtMostFive ==
    /\ Cardinality(Inline) <= 5
    /\ \A k \in DOMAIN shown : k <= 5 /\ shown[k].name = basename(downloaded[k])

\* C8: collect_media_links returns no URL twice, so no URL is requested twice,
\* and its result is no longer than the number of src-bearing elements
\* examined.
LinksAreDistinct ==
    /\ NoRepeats(media_links)
    /\ NoRepeats(requested)
    /\ Len(media_links) <= examined

\* Three elements, two of which resolve to one URL: two links, each requested.
DuplicateSrcCollapsed ==
    /\ examined = 3
    /\ extracted = 2
    /\ Len(media_links) = 2
    /\ requested = media_links

\* Results k < l are two successful downloads of different URLs that reduce to
\* the same file name.
Collide(k, l) ==
    /\ k < l
    /\ results[k].outcome = "ok"
    /\ results[l].outcome = "ok"
    /\ results[k].url # results[l].url
    /\ FilenameOf(results[k].url) # <<>>
    /\ FilenameOf(results[k].url) = FilenameOf(results[l].url)

\* The last successful download that wrote path p.
LastWriter(p) ==
    CHOOSE k \in DOMAIN results :
        /\ results[k].outcome = "ok"
        /\ results[k].path = p
        /\ \A m \in DOMAIN results :
              (m > k /\ results[m].outcome = "ok") => results[m].path # p

\* C9: when download_media returns and two different URLs reduced to the same
\* file name and both succeeded, both are recorded with the same path, the
\* directory holds one file of that path, its content is the whole body of the
\* later URL, and the directory holds fewer files than successes were recorded.
CollisionLastWriteWins ==
    pc = "returned" =>
        \A k, l \in DOMAIN results :
            Collide(k, l) =>
                /\ results[k].path = results[l].path
                /\ Cardinality({f \in files : f.path = results[l].path}) = 1
                /\ \A f \in files :
                      f.path = results[l].path =>
                          f.complete /\ f.body = results[LastWriter(f.path)].url
                /\ Cardinality(files) < Len(downloaded)

\* C10: the Source caption of every preview entry names the URL its file was
\* downloaded from.
CaptionNamesSource ==
    \A k \in DOMAIN shown :
        shown[k].captioned => shown[k].source = Succeeded(results)[k].url

====
